---- MODULE Spec2Model ----
(***************************************************************************)
(* Pricing engine of the Condado Dog budget calculator (src/app.py):       *)
(* the duration-to-diarias converter, the tiered base rate calculator,     *)
(* the calendar-aware monthly-plan discount and the submit handler that    *)
(* combines them.                                                          *)
(*                                                                         *)
(* Numbers.  Python computes with floats; every quantity here is an exact  *)
(* rational <<n, d>> (d > 0, lowest terms), so 0.25 is <<1, 4>>.  Hours    *)
(* come from datetimes of minute resolution (st.date_input/st.time_input), *)
(* for which the float comparisons of the code agree with the exact ones.  *)
(***************************************************************************)
EXTENDS Integers, Sequences, FiniteSets

VARIABLES
    pc,                  \* position of the run
    total_horas,         \* argument of calcular_diarias_com_tolerancia
    diarias,             \* its return value
    df_precos,           \* sheet "Diaria": set of rows
    df_mensal,           \* sheet "Mensal": set of rows
    df_fidelidade,       \* sheet "Mensal Fidelidade": set of rows
    num_caes,            \* st.session_state.num_caes
    tipo_cliente,        \* st.session_state.tipo_cliente
    dias_plano_daycare,  \* weekdays ticked (Monday = 0 .. Friday = 4)
    alta_temporada,      \* high-season checkbox
    nomes_ok,            \* owner and dog names all filled in
    entrada_datetime,    \* check-in
    saida_datetime,      \* check-out
    resultado_base,      \* what calcular_orcamento_base returned
    desconto,            \* discount_total
    dias_coincidentes,   \* matching_day_count
    valor_final,         \* final_total
    exibido,             \* the result block was rendered
    registro,            \* an audit row was appended
    pdf,                 \* the proposal document was rendered
    excecao              \* the exception that ended the run, or None

vars == <<pc, total_horas, diarias, df_precos, df_mensal, df_fidelidade,
          num_caes, tipo_cliente, dias_plano_daycare, alta_temporada, nomes_ok,
          entrada_datetime, saida_datetime, resultado_base, desconto,
          dias_coincidentes, valor_final, exibido, registro, pdf, excecao>>

\* Python's None where a number is expected: a pair that is no rational
None == <<0, 0>>
\* no exception
SemExcecao == "None"

---------------------------------------------------------------------------
(* Exact arithmetic standing for Python's numbers.                         *)

Abs(x) == IF x < 0 THEN -x ELSE x

RECURSIVE GCD(_, _)
GCD(a, b) == IF b = 0 THEN a ELSE GCD(b, a % b)

\* the rational n/d in lowest terms with a positive denominator
R(n, d) ==
    LET s == IF d < 0 THEN -1 ELSE 1
        g == GCD(Abs(n), Abs(d))
    IN  <<(s * n) \div g, (s * d) \div g>>

RInt(k) == <<k, 1>>
RAdd(a, b) == R(a[1] * b[2] + b[1] * a[2], a[2] * b[2])
RSub(a, b) == R(a[1] * b[2] - b[1] * a[2], a[2] * b[2])
RMul(a, b) == R(a[1] * b[1], a[2] * b[2])
RDiv(a, b) == R(a[1] * b[2], a[2] * b[1])
RLe(a, b) == a[1] * b[2] <= b[1] * a[2]
RLt(a, b) == a[1] * b[2] < b[1] * a[2]
REq(a, b) == a[1] * b[2] = b[1] * a[2]
\* math.floor
RFloor(a) == a[1] \div a[2]
\* Python's a % m for m > 0: a - m * floor(a / m)
RMod(a, m) == RSub(a, RMul(m, RInt(RFloor(RDiv(a, m)))))

---------------------------------------------------------------------------
(* Bounds of the model.                                                    *)

\* total_horas is drawn on a grid of 1/PartesPorHora hours
PartesPorHora == 4
\* longest duration handed to the converter, in hours
MaxHoras == 76
\* most negative duration handed to the converter, in hours
MaxHorasNeg == 2
\* greatest number of dogs
MaxCaes == 2
\* longest stay, in calendar days from the check-in date to the check-out date
MaxEstadia == 8
\* number of check-in dates tried by the discount calculator, from DataInicio on
MaxInicio == 66
\* the same for the submit handler: check-in dates and longest stay
MaxInicioForm == 3
MaxEstadiaForm == 2

---------------------------------------------------------------------------
(* calcular_diarias_com_tolerancia, src/app.py 119-139                     *)

\* the ladder computed on the hours beyond the first 24 only
DiariasLadderBeyondFirstDay(horas) ==
    IF RLe(horas, RInt(0)) THEN RInt(0)
    ELSE IF RLt(horas, RInt(24)) THEN RInt(1)
    ELSE
        LET alem == RSub(horas, RInt(24))
            dias_inteiros == RFloor(RDiv(alem, RInt(24)))
            horas_residuais == RMod(alem, RInt(24))
        IN  IF RLe(horas_residuais, RInt(2)) THEN RInt(dias_inteiros)
            ELSE IF RLe(horas_residuais, RInt(6)) THEN RAdd(RInt(dias_inteiros), R(1, 4))
            ELSE IF RLe(horas_residuais, RInt(12)) THEN RAdd(RInt(dias_inteiros), R(1, 2))
            ELSE IF RLe(horas_residuais, RInt(18)) THEN RAdd(RInt(dias_inteiros), R(3, 4))
            ELSE RAdd(RInt(dias_inteiros), RInt(1))

\* the 2-hour tolerance tested with < instead of <=
DiariasStrictTolerance(horas) ==
    IF RLe(horas, RInt(0)) THEN RInt(0)
    ELSE IF RLt(horas, RInt(24)) THEN RInt(1)
    ELSE
        LET dias_inteiros == RFloor(RDiv(horas, RInt(24)))
            horas_residuais == RMod(horas, RInt(24))
        IN  IF REq(horas_residuais, RInt(0)) THEN RInt(dias_inteiros)
            ELSE IF RLt(horas_residuais, RInt(2)) THEN RInt(dias_inteiros)
            ELSE IF RLt(RInt(2), horas_residuais) /\ RLe(horas_residuais, RInt(6))
                THEN RAdd(RInt(dias_inteiros), R(1, 4))
            ELSE IF RLt(RInt(6), horas_residuais) /\ RLe(horas_residuais, RInt(12))
                THEN RAdd(RInt(dias_inteiros), R(1, 2))
            ELSE IF RLt(RInt(12), horas_residuais) /\ RLe(horas_residuais, RInt(18))
                THEN RAdd(RInt(dias_inteiros), R(3, 4))
            ELSE RAdd(RInt(dias_inteiros), RInt(1))

\* the hours beyond the tolerance charged in proportion, not in quarters
DiariasProporcional(horas) ==
    IF RLe(horas, RInt(0)) THEN RInt(0)
    ELSE IF RLt(horas, RInt(24)) THEN RInt(1)
    ELSE
        LET dias_inteiros == RFloor(RDiv(horas, RInt(24)))
            horas_residuais == RMod(horas, RInt(24))
        IN  IF RLe(horas_residuais, RInt(2)) THEN RInt(dias_inteiros)
            ELSE RAdd(RInt(dias_inteiros), RDiv(horas_residuais, RInt(24)))

calcular_diarias_com_tolerancia(horas) ==
    IF RLe(horas, RInt(0)) THEN RInt(0)
    ELSE IF RLt(horas, RInt(24)) THEN RInt(1)
    ELSE
        LET dias_inteiros == RFloor(RDiv(horas, RInt(24)))
            horas_residuais == RMod(horas, RInt(24))
        IN  IF REq(horas_residuais, RInt(0)) THEN RInt(dias_inteiros)
            ELSE IF RLe(horas_residuais, RInt(2)) THEN RInt(dias_inteiros)
            ELSE IF RLt(RInt(2), horas_residuais) /\ RLe(horas_residuais, RInt(6))
                THEN RAdd(RInt(dias_inteiros), R(1, 4))
            ELSE IF RLt(RInt(6), horas_residuais) /\ RLe(horas_residuais, RInt(12))
                THEN RAdd(RInt(dias_inteiros), R(1, 2))
            ELSE IF RLt(RInt(12), horas_residuais) /\ RLe(horas_residuais, RInt(18))
                THEN RAdd(RInt(dias_inteiros), R(3, 4))
            ELSE RAdd(RInt(dias_inteiros), RInt(1))

---------------------------------------------------------------------------
(* Dates: datetime.date as [ano, mes, dia], datetime.datetime as           *)
(* [data, minuto] (minute of the day), as datetime.combine builds them at  *)
(* src/app.py 352-353.                                                     *)

\* calendar.isleap
EhBissexto(ano) == ano % 4 = 0 /\ (ano % 100 # 0 \/ ano % 400 = 0)

DiasNoMes(ano, mes) ==
    IF mes = 2 THEN (IF EhBissexto(ano) THEN 29 ELSE 28)
    ELSE IF mes \in {4, 6, 9, 11} THEN 30 ELSE 31

RECURSIVE DiasAntesDoMes(_, _)
DiasAntesDoMes(ano, mes) ==
    IF mes = 1 THEN 0 ELSE DiasAntesDoMes(ano, mes - 1) + DiasNoMes(ano, mes - 1)

\* date.toordinal (proleptic Gregorian, 0001-01-01 is day 1)
ToOrdinal(d) ==
    LET y == d.ano - 1
    IN  y * 365 + (y \div 4) - (y \div 100) + (y \div 400)
        + DiasAntesDoMes(d.ano, d.mes) + d.dia

\* date.weekday: Monday = 0 .. Sunday = 6
weekday(d) == (ToOrdinal(d) + 6) % 7

\* d + timedelta(days=1)
ProximoDia(d) ==
    IF d.dia < DiasNoMes(d.ano, d.mes) THEN [d EXCEPT !.dia = d.dia + 1]
    ELSE IF d.mes < 12 THEN [ano |-> d.ano, mes |-> d.mes + 1, dia |-> 1]
    ELSE [ano |-> d.ano + 1, mes |-> 1, dia |-> 1]

\* date <= date
DataLe(a, b) ==
    \/ a.ano < b.ano
    \/ a.ano = b.ano /\ a.mes < b.mes
    \/ a.ano = b.ano /\ a.mes = b.mes /\ a.dia <= b.dia

\* datetime <= datetime
DatetimeLe(a, b) ==
    \/ a.data # b.data /\ DataLe(a.data, b.data)
    \/ a.data = b.data /\ a.minuto <= b.minuto

\* (saida_dt - entrada_dt).total_seconds() / 3600, src/app.py 147-148
TotalHoras(entrada_dt, saida_dt) ==
    R((ToOrdinal(saida_dt.data) - ToOrdinal(entrada_dt.data)) * 1440
        + saida_dt.minuto - entrada_dt.minuto, 60)

\* calendar.monthcalendar(ano, mes): the weeks of the month, Monday first,
\* each a sequence of 7 day numbers with 0 for the days outside the month
monthcalendar(ano, mes) ==
    LET primeiro == weekday([ano |-> ano, mes |-> mes, dia |-> 1])
        ndias == DiasNoMes(ano, mes)
        nsemanas == (primeiro + ndias + 6) \div 7
    IN  [w \in 1..nsemanas |->
            [c \in 1..7 |->
                LET dia == (w - 1) * 7 + c - primeiro
                IN  IF dia >= 1 /\ dia <= ndias THEN dia ELSE 0]]

---------------------------------------------------------------------------
(* The sheets.  A DataFrame is the set of its rows; the key column of each *)
(* sheet holds unique values, so no operation of the code depends on the   *)
(* order of the rows.                                                      *)
(*   Diaria: [qtd, valor, alta] for 'Quantidade de Diarias',               *)
(*           'Valor da Diaria', 'Alta temporada'                           *)
(*   Mensal, Mensal Fidelidade: [vezes, valor] for 'Vezes por semana',     *)
(*           'Valor'                                                       *)

\* df.sort_values('Quantidade de Diarias', ascending=False).iloc[0]
MaxQtd(df) == CHOOSE r \in df : \A q \in df : q.qtd <= r.qtd
\* df.sort_values('Quantidade de Diarias').iloc[0]
MinQtd(df) == CHOOSE r \in df : \A q \in df : r.qtd <= q.qtd

---------------------------------------------------------------------------
(* calcular_orcamento_base, src/app.py 141-182                             *)

Nulo == <<None, None, None>>
IndexError == "IndexError"
TypeError == "TypeError"
\* a call that returned v / that raised e
Retorna(v) == [exc |-> SemExcecao, ret |-> v]
Levanta(e) == [exc |-> e, ret |-> <<>>]

\* row[coluna_preco], src/app.py 156
Preco(row, alta) == RInt(IF alta THEN row.alta ELSE row.valor)

\* src/app.py 158-160: the 1-diaria price that the fraction is charged at
ValorDiariaBase(df, alta) ==
    LET preco_row_base == {r \in df : r.qtd = 1}
    IN  IF preco_row_base # {}
        THEN Preco(CHOOSE r \in preco_row_base : TRUE, alta)
        ELSE Preco(MinQtd(df), alta)

\* a missing tier resolved upwards, to the nearest tier above the lookup
ValorDiariaPacoteNearestAbove(df, dias_para_lookup, alta) ==
    IF dias_para_lookup > MaxQtd(df).qtd
    THEN Retorna(Preco(MaxQtd(df), alta))
    ELSE
        LET preco_row == {r \in df : r.qtd = dias_para_lookup}
        IN  IF preco_row # {}
            THEN Retorna(Preco(CHOOSE r \in preco_row : TRUE, alta))
            ELSE Retorna(Preco(MinQtd({r \in df : r.qtd >= dias_para_lookup}), alta))

\* src/app.py 162-171: the price of the tier the stay falls in, or the
\* IndexError of .iloc[0] on an empty selection
ValorDiariaPacote(df, dias_para_lookup, alta) ==
    IF dias_para_lookup > MaxQtd(df).qtd
    THEN Retorna(Preco(MaxQtd(df), alta))
    ELSE
        LET preco_row == {r \in df : r.qtd = dias_para_lookup}
            abaixo == {r \in df : r.qtd <= dias_para_lookup}
        IN  IF preco_row # {}
            THEN Retorna(Preco(CHOOSE r \in preco_row : TRUE, alta))
            ELSE IF abaixo = {} THEN Levanta(IndexError)
            ELSE Retorna(Preco(MaxQtd(abaixo), alta))

\* src/app.py 152-154
DiasParaLookup(qtd_diarias_cobradas) ==
    IF RFloor(qtd_diarias_cobradas) = 0 THEN 1 ELSE RFloor(qtd_diarias_cobradas)

\* src/app.py 173-180
ValorTotal(caes, qtd_diarias_cobradas, valor_diaria_pacote, valor_diaria_base) ==
    LET dias_inteiros == RFloor(qtd_diarias_cobradas)
        fracao_diaria == RSub(qtd_diarias_cobradas, RInt(dias_inteiros))
        custo_dias_inteiros == RMul(RInt(dias_inteiros), valor_diaria_pacote)
        custo_fracao == RMul(fracao_diaria, valor_diaria_base)
    IN  RMul(RInt(caes), RAdd(custo_dias_inteiros, custo_fracao))

calcular_orcamento_base(df, caes, entrada_dt, saida_dt, alta) ==
    IF df = {} \/ caes <= 0 THEN Retorna(Nulo)
    ELSE IF DatetimeLe(saida_dt, entrada_dt) THEN Retorna(Nulo)
    ELSE
        LET horas == TotalHoras(entrada_dt, saida_dt)
            qtd_diarias_cobradas == calcular_diarias_com_tolerancia(horas)
            dias_para_lookup == DiasParaLookup(qtd_diarias_cobradas)
            valor_diaria_base == ValorDiariaBase(df, alta)
            valor_diaria_pacote == ValorDiariaPacote(df, dias_para_lookup, alta)
        IN  IF valor_diaria_pacote.exc # SemExcecao
            THEN Levanta(valor_diaria_pacote.exc)
            ELSE Retorna(<<qtd_diarias_cobradas, valor_diaria_pacote.ret,
                           ValorTotal(caes, qtd_diarias_cobradas,
                                      valor_diaria_pacote.ret, valor_diaria_base)>>)

---------------------------------------------------------------------------
(* contar_dias_da_semana_no_mes, src/app.py 184-190                        *)

RECURSIVE ContarSemanas(_, _, _)
ContarSemanas(matriz_mes, dia_da_semana, i) ==
    IF i > Len(matriz_mes) THEN 0
    ELSE (IF matriz_mes[i][dia_da_semana + 1] # 0 THEN 1 ELSE 0)
         + ContarSemanas(matriz_mes, dia_da_semana, i + 1)

\* every month taken to hold four of each weekday
ContarQuatroSemanas(ano, mes, dia_da_semana) == 4

contar_dias_da_semana_no_mes(ano, mes, dia_da_semana) ==
    ContarSemanas(monthcalendar(ano, mes), dia_da_semana, 1)

---------------------------------------------------------------------------
(* calcular_desconto_mensalista, src/app.py 192-225                        *)

RECURSIVE SomaDiasPlano(_, _, _)
\* src/app.py 207-209
SomaDiasPlano(ano, mes, dias) ==
    IF dias = {} THEN 0
    ELSE LET dia == CHOOSE x \in dias : TRUE
         IN  contar_dias_da_semana_no_mes(ano, mes, dia)
             + SomaDiasPlano(ano, mes, dias \ {dia})

RECURSIVE DiasCoincidentesExclusive(_, _, _)
\* the loop stopping before the check-out date
DiasCoincidentesExclusive(data_atual, data_saida, dias) ==
    IF ~(data_atual # data_saida /\ DataLe(data_atual, data_saida)) THEN 0
    ELSE (IF weekday(data_atual) \in dias THEN 1 ELSE 0)
         + DiasCoincidentesExclusive(ProximoDia(data_atual), data_saida, dias)

RECURSIVE DiasCoincidentes(_, _, _)
\* src/app.py 216-222
DiasCoincidentes(data_atual, data_saida, dias) ==
    IF ~DataLe(data_atual, data_saida) THEN 0
    ELSE (IF weekday(data_atual) \in dias THEN 1 ELSE 0)
         + DiasCoincidentes(ProximoDia(data_atual), data_saida, dias)

\* the nearest lower frequency taken when the exact one has no row
PlanoRowNearestBelow(df_plano, vezes_por_semana) ==
    LET abaixo == {r \in df_plano : r.vezes <= vezes_por_semana}
    IN  {r \in abaixo : \A q \in abaixo : q.vezes <= r.vezes}

\* src/app.py 196
PlanoRow(df_plano, vezes_por_semana) ==
    {r \in df_plano : r.vezes = vezes_por_semana}

calcular_desconto_mensalista(entrada_dt, saida_dt, dias_plano, df_plano, caes) ==
    IF dias_plano = {} \/ df_plano = {} THEN <<RInt(0), 0>>
    ELSE
        LET vezes_por_semana == Cardinality(dias_plano)
            plano_row == PlanoRow(df_plano, vezes_por_semana)
        IN  IF plano_row = {} THEN <<RInt(0), 0>>
            ELSE
                LET valor_mensal == RInt((CHOOSE r \in plano_row : TRUE).valor)
                    ano_referencia == entrada_dt.data.ano
                    mes_referencia == entrada_dt.data.mes
                    total_dias_plano_no_mes ==
                        SomaDiasPlano(ano_referencia, mes_referencia, dias_plano)
                    valor_diario_proporcional ==
                        IF total_dias_plano_no_mes > 0
                        THEN RDiv(valor_mensal, RInt(total_dias_plano_no_mes))
                        ELSE RInt(0)
                    coincidentes ==
                        DiasCoincidentes(entrada_dt.data, saida_dt.data, dias_plano)
                IN  <<RMul(RMul(RInt(coincidentes), valor_diario_proporcional),
                           RInt(caes)),
                      coincidentes>>

---------------------------------------------------------------------------
(* Inputs.                                                                 *)

\* first date of the window the stays are drawn from; the window runs over
\* a year end and the 29-day February of 2024
DataInicio == [ano |-> 2023, mes |-> 12, dia |-> 28]

\* the dates of the calendar years the window lies in
DatasValidas ==
    {d \in [ano : {2023, 2024}, mes : 1..12, dia : 1..31] : d.dia <= DiasNoMes(d.ano, d.mes)}

\* the window: Janela[n] is the date n days after DataInicio
Janela ==
    [n \in 0..(MaxInicio + MaxEstadia + 1) |->
        CHOOSE x \in DatasValidas : ToOrdinal(x) = ToOrdinal(DataInicio) + n]

Datetime(d, h, m) == [data |-> d, minuto |-> h * 60 + m]

\* rows of the sheet Diaria: dearer in high season, cheaper per day for
\* longer packages, every price different
LinhaDiaria(t) == [qtd |-> t, valor |-> 106 - 6 * t, alta |-> 130 - 5 * t]
TabelaDiaria(tiers) == {LinhaDiaria(t) : t \in tiers}
TiersDiaria == {1, 2, 3, 5, 7}

\* rows of the sheets Mensal and Mensal Fidelidade
LinhaMensal(k) == [vezes |-> k, valor |-> 375 * k - 25 * k * k]
LinhaFidelidade(k) == [vezes |-> k, valor |-> ((375 * k - 25 * k * k) * 9) \div 10]
TabelaMensal(freqs) == {LinhaMensal(k) : k \in freqs}
TabelaFidelidade(freqs) == {LinhaFidelidade(k) : k \in freqs}

\* Monday = 0 .. Friday = 4, src/app.py 316
DiasUteis == 0..4

ClienteAvulso == "Cliente Avulso"
ClienteMensal == "Cliente Mensal"
ClienteFidelizado == "Cliente Mensal Fidelizado"

SemDatetime == Datetime([ano |-> 0, mes |-> 0, dia |-> 0], 0, 0)

\* the variables a run does not use
SemFormulario ==
    /\ df_precos = {} /\ df_mensal = {} /\ df_fidelidade = {}
    /\ num_caes = 0 /\ tipo_cliente = ClienteAvulso /\ dias_plano_daycare = {}
    /\ alta_temporada = FALSE /\ nomes_ok = FALSE
    /\ entrada_datetime = SemDatetime /\ saida_datetime = SemDatetime

SemResultado ==
    /\ resultado_base = <<>> /\ desconto = None /\ dias_coincidentes = 0
    /\ valor_final = None /\ exibido = FALSE /\ registro = FALSE /\ pdf = FALSE
    /\ excecao = SemExcecao

---------------------------------------------------------------------------
(* The converter alone.                                                    *)

InitDiarias ==
    /\ pc = "diarias"
    /\ total_horas \in {R(k, PartesPorHora) :
                         k \in -(MaxHorasNeg * PartesPorHora)..(MaxHoras * PartesPorHora)}
    /\ diarias = None
    /\ SemFormulario /\ SemResultado

Converter ==
    /\ pc = "diarias"
    /\ diarias' = calcular_diarias_com_tolerancia(total_horas)
    /\ pc' = "diarias_ret"
    /\ UNCHANGED <<total_horas, df_precos, df_mensal, df_fidelidade, num_caes,
                   tipo_cliente, dias_plano_daycare, alta_temporada, nomes_ok,
                   entrada_datetime, saida_datetime, resultado_base, desconto,
                   dias_coincidentes, valor_final, exibido, registro, pdf, excecao>>

NextDiarias == Converter

SpecDiarias == InitDiarias /\ [][NextDiarias]_vars

---------------------------------------------------------------------------
(* calcular_orcamento_base alone: every rate table over TiersDiaria, the   *)
(* empty one included, dog counts from 0, check-outs before and after the  *)
(* check-in.                                                               *)

InitBase ==
    /\ pc = "base"
    /\ total_horas = None /\ diarias = None
    /\ df_precos \in {TabelaDiaria(t) : t \in SUBSET TiersDiaria}
    /\ num_caes \in 0..MaxCaes
    /\ alta_temporada \in BOOLEAN
    /\ entrada_datetime \in {Datetime(Janela[0], 14, m) : m \in {0, 30}}
    /\ saida_datetime \in {Datetime(Janela[n], h, 0) :
                            n \in 0..MaxEstadia, h \in 0..23}
    /\ df_mensal = {} /\ df_fidelidade = {}
    /\ tipo_cliente = ClienteAvulso /\ dias_plano_daycare = {} /\ nomes_ok = FALSE
    /\ SemResultado

OrcamentoBase ==
    /\ pc = "base"
    /\ LET r == calcular_orcamento_base(df_precos, num_caes, entrada_datetime,
                                        saida_datetime, alta_temporada)
       IN  /\ resultado_base' = r.ret
           /\ excecao' = r.exc
    /\ pc' = "base_ret"
    /\ UNCHANGED <<total_horas, diarias, df_precos, df_mensal, df_fidelidade,
                   num_caes, tipo_cliente, dias_plano_daycare, alta_temporada,
                   nomes_ok, entrada_datetime, saida_datetime, desconto,
                   dias_coincidentes, valor_final, exibido, registro, pdf>>

NextBase == OrcamentoBase

SpecBase == InitBase /\ [][NextBase]_vars

---------------------------------------------------------------------------
(* The converter called on its own and through calcular_orcamento_base.    *)

InitConverterBase == InitDiarias \/ InitBase

NextConverterBase == Converter \/ OrcamentoBase

SpecConverterBase == InitConverterBase /\ [][NextConverterBase]_vars

---------------------------------------------------------------------------
(* calcular_desconto_mensalista alone: df_mensal is its df_plano.          *)

InitDesconto ==
    /\ pc = "desconto"
    /\ total_horas = None /\ diarias = None
    /\ df_precos = {} /\ df_fidelidade = {}
    /\ df_mensal \in {TabelaMensal(1..5), TabelaFidelidade({1, 3, 5}), {}}
    /\ \E i \in 1..MaxInicio, j \in 0..(MaxEstadia + 1) :
          /\ entrada_datetime = Datetime(Janela[i], 14, 0)
          /\ saida_datetime \in {Datetime(Janela[i - 1 + j], h, 0) :
                                  h \in {12, 18}}
    /\ num_caes \in 1..MaxCaes
    /\ tipo_cliente = ClienteMensal
    /\ dias_plano_daycare \in SUBSET DiasUteis
    /\ alta_temporada = FALSE /\ nomes_ok = FALSE
    /\ SemResultado

DescontoMensalista ==
    /\ pc = "desconto"
    /\ LET r == calcular_desconto_mensalista(entrada_datetime, saida_datetime,
                                             dias_plano_daycare, df_mensal, num_caes)
       IN  /\ desconto' = r[1]
           /\ dias_coincidentes' = r[2]
    /\ pc' = "desconto_ret"
    /\ UNCHANGED <<total_horas, diarias, df_precos, df_mensal, df_fidelidade,
                   num_caes, tipo_cliente, dias_plano_daycare, alta_temporada,
                   nomes_ok, entrada_datetime, saida_datetime, resultado_base,
                   valor_final, exibido, registro, pdf, excecao>>

NextDesconto == DescontoMensalista

SpecDesconto == InitDesconto /\ [][NextDesconto]_vars

---------------------------------------------------------------------------
(* The submit handler, src/app.py 345-453: one run of the script with the  *)
(* form filled in and "Calcular Orcamento" pressed.                        *)

\* Python's truth value of a tuple: non-empty
Truthy(t) == Len(t) > 0

Init ==
    /\ pc = "submitted"
    /\ total_horas = None /\ diarias = None
    /\ df_precos \in {TabelaDiaria(TiersDiaria), TabelaDiaria({3, 7}), {}}
    /\ df_mensal = TabelaMensal(1..5)
    /\ df_fidelidade \in {TabelaFidelidade({1, 3, 5}), {}}
    /\ num_caes \in 1..MaxCaes
    /\ tipo_cliente \in {ClienteAvulso, ClienteMensal, ClienteFidelizado}
    /\ dias_plano_daycare \in
          IF tipo_cliente = ClienteAvulso THEN {{}} ELSE SUBSET DiasUteis
    /\ alta_temporada \in BOOLEAN
    /\ nomes_ok \in BOOLEAN
    /\ \E i \in 1..MaxInicioForm, j \in 0..MaxEstadiaForm :
          \* check-in from Monday 2024-01-01 on
          /\ entrada_datetime = Datetime(Janela[3 + i], 14, 0)
          /\ saida_datetime \in {Datetime(Janela[3 + i + j], h, 0) :
                                  h \in {12, 18}}
    /\ SemResultado

\* src/app.py 345-357: the validation of the form and the base price
Submit ==
    /\ pc = "submitted"
    /\ IF df_precos = {} \/ ~nomes_ok
       THEN /\ pc' = "done"
            /\ UNCHANGED <<resultado_base, excecao>>
       ELSE LET r == calcular_orcamento_base(df_precos, num_caes, entrada_datetime,
                                             saida_datetime, alta_temporada)
            IN  /\ resultado_base' = r.ret
                /\ excecao' = r.exc
                /\ pc' = IF r.exc # SemExcecao THEN "excecao" ELSE "calculado"
    /\ UNCHANGED <<total_horas, diarias, df_precos, df_mensal, df_fidelidade,
                   num_caes, tipo_cliente, dias_plano_daycare, alta_temporada,
                   nomes_ok, entrada_datetime, saida_datetime, desconto,
                   dias_coincidentes, valor_final, exibido, registro, pdf>>

\* src/app.py 359-369: the discount and the final total
Descontar ==
    /\ pc = "calculado"
    /\ IF ~Truthy(resultado_base)
       THEN /\ pc' = "done"
            /\ UNCHANGED <<desconto, dias_coincidentes, valor_final, excecao>>
       ELSE LET valor_total_base == resultado_base[3]
                d == IF tipo_cliente = ClienteMensal
                     THEN calcular_desconto_mensalista(entrada_datetime, saida_datetime,
                              dias_plano_daycare, df_mensal, num_caes)
                     ELSE IF tipo_cliente = ClienteFidelizado
                     THEN calcular_desconto_mensalista(entrada_datetime, saida_datetime,
                              dias_plano_daycare, df_fidelidade, num_caes)
                     ELSE <<RInt(0), 0>>
            IN  /\ desconto' = d[1]
                /\ dias_coincidentes' = d[2]
                /\ IF valor_total_base = None
                   THEN /\ excecao' = TypeError
                        /\ pc' = "excecao"
                        /\ UNCHANGED valor_final
                   ELSE /\ valor_final' = RSub(valor_total_base, d[1])
                        /\ pc' = "total"
                        /\ UNCHANGED excecao
    /\ UNCHANGED <<total_horas, diarias, df_precos, df_mensal, df_fidelidade,
                   num_caes, tipo_cliente, dias_plano_daycare, alta_temporada,
                   nomes_ok, entrada_datetime, saida_datetime, resultado_base,
                   exibido, registro, pdf>>

\* src/app.py 371-453: the result block, the audit row (a failure to append
\* it is caught and reported, src/app.py 104-114) and the proposal document
Apresentar ==
    /\ pc = "total"
    /\ exibido' = TRUE
    /\ registro' \in BOOLEAN
    /\ pdf' = TRUE
    /\ pc' = "done"
    /\ UNCHANGED <<total_horas, diarias, df_precos, df_mensal, df_fidelidade,
                   num_caes, tipo_cliente, dias_plano_daycare, alta_temporada,
                   nomes_ok, entrada_datetime, saida_datetime, resultado_base,
                   desconto, dias_coincidentes, valor_final, excecao>>

Next == Submit \/ Descontar \/ Apresentar

Spec == Init /\ [][Next]_vars

---------------------------------------------------------------------------
(* Properties.                                                             *)

\* the stay and the table satisfy the preconditions of calcular_orcamento_base
EstadiaValida ==
    /\ df_precos # {}
    /\ num_caes > 0
    /\ ~DatetimeLe(saida_datetime, entrada_datetime)

\* the unit counts of a rate table
Tiers(df) == {r.qtd : r \in df}

\* the reference ladder of the duration tolerance converter
LadderReferencia(h) ==
    LET whole == h[1] \div (24 * h[2])
        r == <<h[1] - 24 * h[2] * whole, h[2]>>
    IN  IF h[1] <= 0 THEN <<0, 1>>
        ELSE IF h[1] < 24 * h[2] THEN <<1, 1>>
        ELSE IF r[1] <= 2 * r[2] THEN <<whole, 1>>
        ELSE IF r[1] <= 6 * r[2] THEN <<4 * whole + 1, 4>>
        ELSE IF r[1] <= 12 * r[2] THEN <<4 * whole + 2, 4>>
        ELSE IF r[1] <= 18 * r[2] THEN <<4 * whole + 3, 4>>
        ELSE <<whole + 1, 1>>

\* C1: the converter equals the reference ladder for every total_hours:
\* 0 for total_hours <= 0, 1 below 24 hours, and from 24 hours on the whole
\* days plus 0, 0.25, 0.5, 0.75 or 1 for a remainder of at most 2, 6, 12, 18
\* hours or more than 18 hours.
C1_DiariasIgualLadder ==
    pc = "diarias_ret" => REq(diarias, LadderReferencia(total_horas))

\* a stay of more than a day whose remainder falls in the 0.25 band
C1_Witness ==
    /\ pc = "diarias_ret"
    /\ RLe(RInt(24), total_horas)
    /\ RLt(RInt(2), RMod(total_horas, RInt(24)))
    /\ diarias = RAdd(RInt(RFloor(RDiv(total_horas, RInt(24)))), R(1, 4))

\* the durations the converter is tried on
GradeHoras ==
    {R(k, PartesPorHora) :
        k \in -(MaxHorasNeg * PartesPorHora)..(MaxHoras * PartesPorHora)}

\* C10: the converter is monotone: a longer duration is never charged fewer
\* diarias than a shorter one, also across 0 and across 24 hours.
C10_Monotonica ==
    pc = "diarias_ret" =>
        \A h2 \in GradeHoras :
            RLt(total_horas, h2) => RLe(diarias, calcular_diarias_com_tolerancia(h2))

\* a duration just under 24 hours, charged one diaria, with longer durations
\* on the other side of 24 hours to compare with
C10_Witness ==
    /\ pc = "diarias_ret"
    /\ RLt(RInt(23), total_horas) /\ RLt(total_horas, RInt(24))
    /\ diarias = RInt(1)
    /\ \E h2 \in GradeHoras : RLe(RInt(24), h2) /\ RLt(total_horas, h2)

\* C2: a stay violating a precondition yields no result and the request
\* ends without failing: once calcular_orcamento_base has returned its null
\* outcome, no exception ends the run, no final total is computed, no result
\* is shown, no audit row is appended and no document is rendered.
C2_NuloTerminaSemFalha ==
    resultado_base = Nulo =>
        /\ excecao = SemExcecao
        /\ pc \in {"calculado", "done"}
        /\ valor_final = None
        /\ ~exibido /\ ~registro /\ ~pdf

\* C3: calcular_orcamento_base never fails on valid input: whatever the unit
\* counts of a non-empty rate table, for dog_count > 0 and check_out > check_in
\* it returns a triple whose price is a price of the table.
C3_NuncaFalhaEmEntradaValida ==
    (pc = "base_ret" /\ EstadiaValida) =>
        /\ excecao = SemExcecao
        /\ Len(resultado_base) = 3
        /\ \E r \in df_precos : resultado_base[2] = Preco(r, alta_temporada)

\* lookup_tier = max(1, floor(billable_units))
LookupTier(billable_units) ==
    IF RFloor(billable_units) < 1 THEN 1 ELSE RFloor(billable_units)

\* the tier the lookup policy names: the exact one, else the greatest one
\* below the lookup tier (which is the greatest of the table when the lookup
\* tier is beyond it); 0 when the table has no tier up to the lookup tier
TierDaPolitica(tiers, lookup_tier) ==
    IF lookup_tier \in tiers THEN lookup_tier
    ELSE IF \E t \in tiers : t <= lookup_tier
    THEN CHOOSE t \in tiers : t <= lookup_tier /\ \A u \in tiers : u <= lookup_tier => u <= t
    ELSE 0

\* C4: tier resolution: the price returned is that of the tier equal to
\* lookup_tier if the table has it, otherwise that of the greatest tier below
\* lookup_tier, and that of the greatest tier of the table when lookup_tier is
\* beyond it.
C4_TierResolution ==
    (pc = "base_ret" /\ EstadiaValida) =>
        LET lookup_tier ==
                LookupTier(calcular_diarias_com_tolerancia(
                               TotalHoras(entrada_datetime, saida_datetime)))
            t == TierDaPolitica(Tiers(df_precos), lookup_tier)
        IN  t # 0 =>
                /\ excecao = SemExcecao
                /\ \E r \in df_precos :
                      /\ r.qtd = t
                      /\ resultado_base[2] = Preco(r, alta_temporada)
                /\ (\A u \in Tiers(df_precos) : u < lookup_tier) =>
                      \A u \in Tiers(df_precos) : u <= t

\* tiers {1, 3, 7} and a lookup tier of 5: tier 3's price is used
C4_Witness ==
    /\ pc = "base_ret"
    /\ Tiers(df_precos) = {1, 3, 7}
    /\ Len(resultado_base) = 3
    /\ resultado_base[1] # None
    /\ RFloor(resultado_base[1]) = 5
    /\ resultado_base[2] = Preco(LinhaDiaria(3), alta_temporada)

\* tier_price_for: the price, in the column the high-season flag selects, of
\* the tier the lookup policy names; None when it names no tier
TierPriceFor(df, lookup_tier, alta) ==
    LET t == TierDaPolitica(Tiers(df), lookup_tier)
    IN  IF t = 0 THEN None ELSE Preco(CHOOSE r \in df : r.qtd = t, alta)

\* C5: for every valid stay the gross total returned equals
\* dog_count x (W x tier_price_for(W) + F x tier_price_for(1)), with W the
\* whole and F the fractional part of the billable units and both prices read
\* from the column the high-season flag selects.
C5_GrossTotal ==
    (pc = "base_ret" /\ EstadiaValida) =>
        LET billable_units == calcular_diarias_com_tolerancia(
                                  TotalHoras(entrada_datetime, saida_datetime))
            W == RFloor(billable_units)
            F == RSub(billable_units, RInt(W))
            pW == TierPriceFor(df_precos, LookupTier(billable_units), alta_temporada)
            p1 == TierPriceFor(df_precos, 1, alta_temporada)
        IN  /\ excecao = SemExcecao
            /\ pW # None /\ p1 # None
            /\ Len(resultado_base) = 3
            /\ REq(resultado_base[3],
                   RMul(RInt(num_caes), RAdd(RMul(RInt(W), pW), RMul(F, p1))))

\* C6: the discount never exceeds the gross total, so the final total is
\* never negative.
C6_FinalNaoNegativo ==
    valor_final # None =>
        /\ RLe(desconto, resultado_base[3])
        /\ RLe(RInt(0), valor_final)

\* the plan is non-empty and the plan table has its row
TemPlano(dias_plano, df_plano) ==
    /\ dias_plano # {}
    /\ \E r \in df_plano : r.vezes = Cardinality(dias_plano)

\* C7: matching_day_count is the number of calendar dates from the check-in
\* date to the check-out date, both included, whose weekday is in the plan,
\* whatever the times of day and also across a month boundary.
C7_MatchingDayCount ==
    (pc = "desconto_ret" /\ TemPlano(dias_plano_daycare, df_mensal)) =>
        dias_coincidentes =
            Cardinality({n \in ToOrdinal(entrada_datetime.data)..ToOrdinal(saida_datetime.data) :
                            (n + 6) % 7 \in dias_plano_daycare})

\* a stay that runs into the following month, checking out at an earlier
\* time of day than it checked in, with matching days
C7_Witness ==
    /\ pc = "desconto_ret"
    /\ TemPlano(dias_plano_daycare, df_mensal)
    /\ entrada_datetime.data.mes # saida_datetime.data.mes
    /\ saida_datetime.minuto < entrada_datetime.minuto
    /\ dias_coincidentes >= 2

\* the days of the month (ano, mes) whose weekday is in dias
DiasDoPlanoNoMes(ano, mes, dias) ==
    {dia \in 1..DiasNoMes(ano, mes) :
        weekday([ano |-> ano, mes |-> mes, dia |-> dia]) \in dias}

\* C8: for a non-empty plan with a plan row, discount_total =
\* matching_day_count x dog_count x monthly_price / total_plan_days_in_month,
\* the latter being the number of days of the check-in's calendar month that
\* fall on a selected weekday, also when the stay runs into the next month.
C8_Proration ==
    (pc = "desconto_ret" /\ TemPlano(dias_plano_daycare, df_mensal)) =>
        LET monthly_price ==
                (CHOOSE r \in df_mensal : r.vezes = Cardinality(dias_plano_daycare)).valor
            total_plan_days_in_month ==
                Cardinality(DiasDoPlanoNoMes(entrada_datetime.data.ano,
                                             entrada_datetime.data.mes,
                                             dias_plano_daycare))
        IN  /\ total_plan_days_in_month > 0
            /\ REq(desconto,
                   R(dias_coincidentes * num_caes * monthly_price,
                     total_plan_days_in_month))

\* a stay running into the following month, with matching days, in a month
\* that holds a selected weekday five times
C8_Witness ==
    /\ pc = "desconto_ret"
    /\ TemPlano(dias_plano_daycare, df_mensal)
    /\ entrada_datetime.data.mes # saida_datetime.data.mes
    /\ dias_coincidentes > 0
    /\ RLt(RInt(0), desconto)
    /\ Cardinality(DiasDoPlanoNoMes(entrada_datetime.data.ano,
                                    entrada_datetime.data.mes,
                                    dias_plano_daycare))
           > 4 * Cardinality(dias_plano_daycare)

\* the plan table the client type selects
TabelaDoCliente ==
    IF tipo_cliente = ClienteMensal THEN df_mensal
    ELSE IF tipo_cliente = ClienteFidelizado THEN df_fidelidade
    ELSE {}

\* the discount of the run has been computed (src/app.py 361-367 were run)
DescontoCalculado ==
    \/ pc = "total"
    \/ pc = "done" /\ exibido
    \/ pc = "excecao" /\ excecao = TypeError

\* C9: with an empty plan, or a plan table without a row for the number of
\* selected weekdays, the discount and the matching day count are 0, the base
\* price result is what it is without a plan and the final total is the gross
\* total.
C9_SemPlanoSemDesconto ==
    (DescontoCalculado /\ ~TemPlano(dias_plano_daycare, TabelaDoCliente)) =>
        /\ desconto = RInt(0)
        /\ dias_coincidentes = 0
        /\ resultado_base =
              calcular_orcamento_base(df_precos, num_caes, entrada_datetime,
                                      saida_datetime, alta_temporada).ret
        /\ valor_final # None => valor_final = resultado_base[3]

\* a loyalty client with two weekdays ticked, which the loyalty table has no
\* row for, on a stay that begins or ends on a ticked weekday: the result is
\* shown undiscounted
C9_Witness ==
    /\ pc = "done" /\ exibido
    /\ tipo_cliente = ClienteFidelizado
    /\ Cardinality(dias_plano_daycare) = 2
    /\ df_fidelidade # {}
    /\ \E d \in dias_plano_daycare :
          d \in {weekday(entrada_datetime.data), weekday(saida_datetime.data)}
    /\ valor_final = resultado_base[3]
    /\ RLt(RInt(0), valor_final)

\* q is a whole number of quarters, and not negative
MultiploDeQuartoNaoNegativo(q) ==
    /\ q[2] > 0
    /\ (4 * q[1]) % q[2] = 0
    /\ q[1] >= 0

\* C11: for every total_hours the converter returns an exact multiple of
\* 0.25 that is not negative; hence the billable units of every result of
\* calcular_orcamento_base are a multiple of 0.25.
C11_MultiploDeQuarto ==
    /\ pc = "diarias_ret" => MultiploDeQuartoNaoNegativo(diarias)
    /\ (pc = "base_ret" /\ excecao = SemExcecao /\ resultado_base # Nulo) =>
          MultiploDeQuartoNaoNegativo(resultado_base[1])

\* a result of calcular_orcamento_base with three quarters of a diaria
\* beyond the whole ones
C11_Witness ==
    /\ pc = "base_ret"
    /\ excecao = SemExcecao
    /\ resultado_base # Nulo
    /\ RSub(resultado_base[1], RInt(RFloor(resultado_base[1]))) = R(3, 4)

====
